---- MODULE Spec2Model ----
(***************************************************************************)
(* A model of tflearn/objectives.py: the objective lookup get() and the    *)
(* five loss functions, over small tensors of IEEE-like values.            *)
(*                                                                         *)
(* A float is a record [k, n, d]: k = "fin" is the exact rational n/d (in  *)
(* lowest terms, d > 0), and k = "nan", "pinf", "ninf" are the IEEE        *)
(* special values.  Rounding is not modelled; the special values are.      *)
(* A tensor is [shape, data]: a sequence of dimension sizes and the        *)
(* elements in row-major order; a scalar has shape << >>.                  *)
(***************************************************************************)
EXTENDS Integers, Sequences, FiniteSets, TLC

VARIABLES
    globals,      \* the module's symbol table: name -> object
    tf_build,     \* what the installed tensor library does where builds differ
    y_pred,       \* the caller's prediction tensor
    y_true,       \* the caller's target tensor
    pc,           \* per thread: where it is in its call
    fn,           \* per thread: the function it called last
    local,        \* per thread: categorical_crossentropy's local name y_pred
    cross_entropy,\* per thread: categorical_crossentropy's local cross_entropy
    ret,          \* per thread: what its call returned or raised
    identifier,   \* the argument of the last call of get
    got,          \* what that call of get returned or raised
    prev          \* the call of get before it: [identifier, got]

vars == <<globals, tf_build, y_pred, y_true, pc, fn, local, cross_entropy, ret,
          identifier, got, prev>>

(***************************************************************************)
(* Bounds of the model.                                                    *)
(***************************************************************************)
MaxRank == 3
MaxElems == 2

(***************************************************************************)
(* Floats.                                                                 *)
(***************************************************************************)
Abs(i) == IF i < 0 THEN -i ELSE i

RECURSIVE GCD(_, _)
GCD(a, b) == IF b = 0 THEN a ELSE GCD(b, a % b)

Fin(n, d) ==
    LET g == GCD(Abs(n), Abs(d))
        s == IF d < 0 THEN -1 ELSE 1
    IN  [k |-> "fin", n |-> (s * n) \div g, d |-> (s * d) \div g]

NaN == [k |-> "nan", n |-> 0, d |-> 1]
PInf == [k |-> "pinf", n |-> 0, d |-> 1]
NInf == [k |-> "ninf", n |-> 0, d |-> 1]
Opaque == [k |-> "opaque", n |-> 0, d |-> 1]
Zero == Fin(0, 1)
One == Fin(1, 1)

IsFin(x) == x.k = "fin"
IsInf(x) == x.k \in {"pinf", "ninf"}

\* -1, 0 or 1 for a finite or infinite value
Sgn(x) ==
    CASE x.k = "pinf" -> 1
      [] x.k = "ninf" -> -1
      [] OTHER -> IF x.n > 0 THEN 1 ELSE IF x.n < 0 THEN -1 ELSE 0

Signed(s) == IF s > 0 THEN PInf ELSE IF s < 0 THEN NInf ELSE NaN

\* x < y as IEEE compares: false when either is NaN
Less(x, y) ==
    CASE x.k \in {"nan", "opaque"} \/ y.k \in {"nan", "opaque"} -> FALSE
      [] x.k = "pinf" -> FALSE
      [] x.k = "ninf" -> y.k # "ninf"
      [] y.k = "pinf" -> TRUE
      [] y.k = "ninf" -> FALSE
      [] OTHER -> x.n * y.d < y.n * x.d

Neg(x) ==
    CASE x.k = "fin" -> Fin(-x.n, x.d)
      [] x.k = "pinf" -> NInf
      [] x.k = "ninf" -> PInf
      [] OTHER -> x

Add(x, y) ==
    CASE x.k = "nan" \/ y.k = "nan" -> NaN
      [] x.k = "opaque" \/ y.k = "opaque" -> Opaque
      [] IsInf(x) /\ IsInf(y) -> IF x.k = y.k THEN x ELSE NaN
      [] IsInf(x) -> x
      [] IsInf(y) -> y
      [] OTHER -> Fin(x.n * y.d + y.n * x.d, x.d * y.d)

Sub(x, y) == Add(x, Neg(y))

Mul(x, y) ==
    CASE x.k = "nan" \/ y.k = "nan" -> NaN
      [] x.k = "opaque" \/ y.k = "opaque" -> Opaque
      [] IsInf(x) \/ IsInf(y) -> Signed(Sgn(x) * Sgn(y))
      [] OTHER -> Fin(x.n * y.n, x.d * y.d)

\* IEEE division; the zeros of this model are positive zeros
Div(x, y) ==
    CASE x.k = "nan" \/ y.k = "nan" -> NaN
      [] x.k = "opaque" \/ y.k = "opaque" -> Opaque
      [] IsInf(x) /\ IsInf(y) -> NaN
      [] IsInf(x) -> IF Sgn(y) < 0 THEN Neg(x) ELSE x
      [] IsInf(y) -> Zero
      [] y.n = 0 -> Signed(Sgn(x))
      [] OTHER -> Fin(x.n * y.d, x.d * y.n)

Square(x) == Mul(x, x)

\* tf.log: the natural logarithm, approximated on the finite positive values
\* by the first term 2(x-1)/(x+1) of its series in (x-1)/(x+1), which has
\* the logarithm's sign, zero and monotonicity.
Log(x) ==
    CASE x.k \in {"nan", "opaque", "pinf"} -> x
      [] x.k = "ninf" -> NaN
      [] x.n < 0 -> NaN
      [] x.n = 0 -> NInf
      [] OTHER -> Fin(2 * (x.n - x.d), x.n + x.d)

\* tf.maximum / tf.minimum: "x > y ? x : y" and "x < y ? x : y" in the
\* library's documentation, which drop a NaN in x; builds whose kernels
\* propagate NaN return NaN instead.
Maximum(x, y) ==
    IF tf_build.nan_propagates /\ (x.k = "nan" \/ y.k = "nan") THEN NaN
    ELSE IF Less(y, x) THEN x ELSE y

Minimum(x, y) ==
    IF tf_build.nan_propagates /\ (x.k = "nan" \/ y.k = "nan") THEN NaN
    ELSE IF Less(x, y) THEN x ELSE y

(***************************************************************************)
(* Tensors.                                                                *)
(***************************************************************************)
RECURSIVE Prod(_)
Prod(s) == IF s = << >> THEN 1 ELSE Head(s) * Prod(Tail(s))

RECURSIVE Sum(_)
Sum(s) == IF s = << >> THEN Zero ELSE Add(Sum(SubSeq(s, 1, Len(s) - 1)), s[Len(s)])

Tensor(shape, data) == [shape |-> shape, data |-> data]
Scalar(x) == Tensor(<< >>, <<x>>)
Rank(t) == Len(t.shape)

\* the elementwise operations the objectives use
tf_square(t) == Tensor(t.shape, [i \in 1..Len(t.data) |-> Square(t.data[i])])
tf_log(t) == Tensor(t.shape, [i \in 1..Len(t.data) |-> Log(t.data[i])])
TensorNeg(t) == Tensor(t.shape, [i \in 1..Len(t.data) |-> Neg(t.data[i])])
TensorSub(a, b) ==
    Tensor(a.shape, [i \in 1..Len(a.data) |-> Sub(a.data[i], b.data[i])])
TensorMul(a, b) ==
    Tensor(a.shape, [i \in 1..Len(a.data) |-> Mul(a.data[i], b.data[i])])

\* c - t, t against c: a tensor and a Python float (broadcast)
ScalarMinus(c, t) ==
    Tensor(t.shape, [i \in 1..Len(t.data) |-> Sub(c, t.data[i])])
tf_maximum(t, c) ==
    Tensor(t.shape, [i \in 1..Len(t.data) |-> Maximum(t.data[i], c)])
tf_minimum(t, c) ==
    Tensor(t.shape, [i \in 1..Len(t.data) |-> Minimum(t.data[i], c)])

\* tf.reduce_mean(t): the mean of all elements, a scalar; 0/0 on no elements
reduce_mean(t) ==
    Scalar(IF Len(t.data) = 0 THEN NaN
           ELSE Div(Sum(t.data), Fin(Len(t.data), 1)))

\* tf.reduce_sum(t, reduction_indices=axis, keep_dims=...) for the last axis
reduce_sum(t, axis, keep_dims) ==
    LET r == Rank(t)
        lead == SubSeq(t.shape, 1, axis)
        last == t.shape[axis + 1]
        outer == Prod(lead)
    IN  Tensor(IF keep_dims THEN Append(lead, 1) ELSE lead,
               [i \in 1..outer |->
                    Sum(SubSeq(t.data, (i - 1) * last + 1, i * last))])

\* t / s where s has t's shape but for a last axis of size 1 (broadcast)
DivBroadcast(t, s) ==
    LET last == t.shape[Rank(t)]
    IN  Tensor(t.shape,
               [i \in 1..Len(t.data) |->
                    Div(t.data[i], s.data[((i - 1) \div last) + 1])])

(***************************************************************************)
(* Numeric configuration (tflearn/config.py, imported at line 5).          *)
(***************************************************************************)
\* _EPSILON: a small positive constant
EPSILON == Fin(1, 100)
\* _FLOATX: the default float type
FLOATX == "float32"

\* tf.cast(x, dtype=_FLOATX) of a Python float; the two clip bounds are taken
\* to be representable in the float type
Cast(x, dtype) == x

(***************************************************************************)
(* What a call gives back: a value, or an exception.                       *)
(***************************************************************************)
NoTensor == Tensor(<< >>, << >>)
Returned(t) == [status |-> "ok", value |-> t]
Raised == [status |-> "raise", value |-> NoTensor]
NotCalled == [status |-> "none", value |-> NoTensor]

(***************************************************************************)
(* The library's fused kernels.  Their values are not computed here (no    *)
(* claim is about them): each element is Opaque, the shape is the          *)
(* kernel's.                                                               *)
(***************************************************************************)
\* tf.nn.softmax_cross_entropy_with_logits(logits, labels): one loss per row.
\* The kernel is documented for [batch_size, num_classes]; on another rank a
\* build either rejects the call or reduces the last axis.
softmax_cross_entropy_with_logits(logits, labels) ==
    IF Rank(logits) = 2 \/ tf_build.xent_any_rank
    THEN LET lead == SubSeq(logits.shape, 1, Rank(logits) - 1)
         IN  Returned(Tensor(lead, [i \in 1..Prod(lead) |-> Opaque]))
    ELSE Raised

\* tf.nn.sigmoid_cross_entropy_with_logits(logits, targets): elementwise
sigmoid_cross_entropy_with_logits(logits, targets) ==
    Tensor(logits.shape, [i \in 1..Len(logits.data) |-> Opaque])

(***************************************************************************)
(* The objectives.                                                         *)
(***************************************************************************)
softmax_categorical_crossentropy(yp, yt) ==
    LET xent == softmax_cross_entropy_with_logits(yp, yt)
    IN  IF xent.status = "ok" THEN Returned(reduce_mean(xent.value)) ELSE Raised

\* `/=` dividing in place, as it does on an array type that defines it
DivAssignInPlace(target, divisor) ==
    [name |-> DivBroadcast(target, divisor),
     object |-> DivBroadcast(target, divisor)]

\* `y_pred /= divisor`: a Tensor has no in-place division, so Python binds
\* the local name to a new quotient tensor and leaves the argument object
\* as it was.  name: what the local name is bound to; object: the caller's
\* tensor after the statement.
DivAssign(target, divisor) ==
    [name |-> DivBroadcast(target, divisor), object |-> target]

\* lines 64-66
CceNormalize(yp) == DivAssign(yp, reduce_sum(yp, Rank(yp) - 1, TRUE))

\* tf.clip_by_value(t, lo, hi) = minimum(maximum(t, lo), hi)
clip_by_value(t, lo, hi) == tf_minimum(tf_maximum(t, lo), hi)

\* the clip without epsilon
CceClipToUnitInterval(yp) == clip_by_value(yp, Zero, One)

\* lines 68-69
CceClip(yp) ==
    clip_by_value(yp, Cast(EPSILON, FLOATX), Cast(Sub(One, EPSILON), FLOATX))

\* the sum without its leading minus
CceCrossEntropyUnnegated(yp, yt) ==
    reduce_sum(TensorMul(yt, tf_log(yp)), Rank(yp) - 1, FALSE)

\* lines 70-71
CceCrossEntropy(yp, yt) ==
    TensorNeg(reduce_sum(TensorMul(yt, tf_log(yp)),
                         Rank(yp) - 1, FALSE))

\* the per-row losses returned as they are
CceReturnUnreduced(ce) == ce

\* line 72
CceReturn(ce) == reduce_mean(ce)

categorical_crossentropy(yp, yt) ==
    Returned(CceReturn(CceCrossEntropy(CceClip(CceNormalize(yp).name), yt)))

binary_crossentropy(yp, yt) ==
    Returned(reduce_mean(sigmoid_cross_entropy_with_logits(yp, yt)))

\* the sum squared where the difference is meant
mean_square_of_sum(yp, yt) ==
    Returned(reduce_mean(tf_square(TensorSub(yp, TensorNeg(yt)))))

mean_square(yp, yt) == Returned(reduce_mean(tf_square(TensorSub(yp, yt))))

\* the margin without its clamp at 0
HingeElementsUnclamped(yp, yt) == ScalarMinus(One, TensorMul(yt, yp))

\* the elements tf.reduce_mean averages at line 127
HingeElements(yp, yt) ==
    tf_maximum(ScalarMinus(One, TensorMul(yt, yp)), Zero)

hinge_loss(yp, yt) == Returned(reduce_mean(HingeElements(yp, yt)))

ObjectiveNames ==
    {"softmax_categorical_crossentropy", "categorical_crossentropy",
     "binary_crossentropy", "mean_square", "hinge_loss"}

\* the objective defined under `name`, applied
Apply(name, yp, yt) ==
    CASE name = "softmax_categorical_crossentropy" ->
             softmax_categorical_crossentropy(yp, yt)
      [] name = "categorical_crossentropy" -> categorical_crossentropy(yp, yt)
      [] name = "binary_crossentropy" -> binary_crossentropy(yp, yt)
      [] name = "mean_square" -> mean_square(yp, yt)
      [] name = "hinge_loss" -> hinge_loss(yp, yt)

(***************************************************************************)
(* Python objects, and the module's symbol table.                          *)
(***************************************************************************)
Str(s) == [type |-> "str", name |-> s]
Function(n) == [type |-> "function", name |-> n]
Object(type, n) == [type |-> type, name |-> n]
None == Object("NoneType", "None")

Callable(o) == o.type = "function"

\* globals() of tflearn.objectives once the module is imported: the module's
\* own __name__, which the import binds first, and every name the file binds
ModuleGlobals ==
    ( "__name__" :> Str("tflearn.objectives") @@
      "division" :> Object("_Feature", "division") @@
      "print_function" :> Object("_Feature", "print_function") @@
      "absolute_import" :> Object("_Feature", "absolute_import") @@
      "tf" :> Object("module", "tensorflow") @@
      "_EPSILON" :> Object("float", "_EPSILON") @@
      "_FLOATX" :> Object("DType", FLOATX) @@
      "get_from_module" :> Function("get_from_module") @@
      "get" :> Function("get") ) @@
    [n \in ObjectiveNames |-> Function(n)]

NoError == [identifier |-> None, module_name |-> ""]
GetReturned(o) == [status |-> "ok", value |-> o, error |-> NoError]
\* the not-found error, which names what was asked for and the category
GetRaised(id, module_name) ==
    [status |-> "raise", value |-> None,
     error |-> [identifier |-> id, module_name |-> module_name]]
GetNotCalled == [status |-> "none", value |-> None, error |-> NoError]

\* tflearn.utils.get_from_module: a name bound in module_params resolves to
\* its binding, a callable passes through, anything else is not found
get_from_module(id, module_params, module_name) ==
    IF id.type = "str" /\ id.name \in DOMAIN module_params
    THEN GetReturned(module_params[id.name])
    ELSE IF Callable(id) THEN GetReturned(id)
    ELSE GetRaised(id, module_name)

\* get resolving in its own locals(), which bind only `identifier`
get_from_locals(id) ==
    get_from_module(id, ("identifier" :> id), "objective")

\* get naming another module's category
get_as_optimizer(id) == get_from_module(id, globals, "optimizer")

get(id) == get_from_module(id, globals, "objective")

(***************************************************************************)
(* Inputs.                                                                 *)
(***************************************************************************)
DimSizes == {0, 1, 2}
Vals == {Zero, Fin(1, 2), One, Fin(-1, 1), Fin(2, 1), PInf, NaN}

Shapes ==
    {s \in UNION {[1..r -> DimSizes] : r \in 1..MaxRank} : Prod(s) <= MaxElems}
Tensors(s, V) == {Tensor(s, d) : d \in [1..Prod(s) -> V]}

Builds == [nan_propagates : BOOLEAN, xent_any_rank : BOOLEAN]

Threads == {"t1", "t2"}

UnboundNames == {"not_a_real_objective", "MeanSquare"}
Identifiers ==
    {Str(n) : n \in (DOMAIN ModuleGlobals) \cup UnboundNames}
    \cup {Function(n) : n \in ObjectiveNames \cup {"get", "my_objective"}}
    \cup {Object("int", "42"), None}

(***************************************************************************)
(* The caller's threads.  categorical_crossentropy runs statement by       *)
(* statement; the other objectives are one expression.                     *)
(***************************************************************************)
Done(t, name, r) ==
    /\ pc' = [pc EXCEPT ![t] = "done"]
    /\ fn' = [fn EXCEPT ![t] = name]
    /\ ret' = [ret EXCEPT ![t] = r]

CallSoftmaxCategoricalCrossentropy(t) ==
    /\ pc[t] = "idle"
    /\ Done(t, "softmax_categorical_crossentropy",
            softmax_categorical_crossentropy(y_pred, y_true))
    /\ UNCHANGED <<globals, tf_build, y_pred, y_true, local, cross_entropy,
                   identifier, got, prev>>

CallBinaryCrossentropy(t) ==
    /\ pc[t] = "idle"
    /\ Done(t, "binary_crossentropy", binary_crossentropy(y_pred, y_true))
    /\ UNCHANGED <<globals, tf_build, y_pred, y_true, local, cross_entropy,
                   identifier, got, prev>>

CallMeanSquare(t) ==
    /\ pc[t] = "idle"
    /\ Done(t, "mean_square", mean_square(y_pred, y_true))
    /\ UNCHANGED <<globals, tf_build, y_pred, y_true, local, cross_entropy,
                   identifier, got, prev>>

CallHingeLoss(t) ==
    /\ pc[t] = "idle"
    /\ Done(t, "hinge_loss", hinge_loss(y_pred, y_true))
    /\ UNCHANGED <<globals, tf_build, y_pred, y_true, local, cross_entropy,
                   identifier, got, prev>>

\* the call and lines 64-66: y_pred /= tf.reduce_sum(y_pred, ...)
CceLine64(t) ==
    /\ pc[t] = "idle"
    /\ pc' = [pc EXCEPT ![t] = "line68"]
    /\ fn' = [fn EXCEPT ![t] = "categorical_crossentropy"]
    /\ local' = [local EXCEPT ![t] = CceNormalize(y_pred).name]
    /\ y_pred' = CceNormalize(y_pred).object
    /\ UNCHANGED <<globals, tf_build, y_true, cross_entropy, ret,
                   identifier, got, prev>>

\* lines 68-69: y_pred = tf.clip_by_value(y_pred, ...)
CceLine68(t) ==
    /\ pc[t] = "line68"
    /\ pc' = [pc EXCEPT ![t] = "line70"]
    /\ local' = [local EXCEPT ![t] = CceClip(local[t])]
    /\ UNCHANGED <<globals, tf_build, y_pred, y_true, fn, cross_entropy, ret,
                   identifier, got, prev>>

\* lines 70-71: cross_entropy = - tf.reduce_sum(y_true * tf.log(y_pred), ...)
CceLine70(t) ==
    /\ pc[t] = "line70"
    /\ pc' = [pc EXCEPT ![t] = "line72"]
    /\ cross_entropy' =
           [cross_entropy EXCEPT ![t] = CceCrossEntropy(local[t], y_true)]
    /\ UNCHANGED <<globals, tf_build, y_pred, y_true, fn, local, ret,
                   identifier, got, prev>>

\* line 72: return tf.reduce_mean(cross_entropy)
CceLine72(t) ==
    /\ pc[t] = "line72"
    /\ Done(t, "categorical_crossentropy", Returned(CceReturn(cross_entropy[t])))
    /\ UNCHANGED <<globals, tf_build, y_pred, y_true, local, cross_entropy,
                   identifier, got, prev>>

\* get(id), called from a thread
CallGet(t, id) ==
    /\ pc[t] = "idle"
    /\ Done(t, "get", get(id))
    /\ UNCHANGED <<globals, tf_build, y_pred, y_true, local, cross_entropy,
                   identifier, got, prev>>

\* the caller takes the result; the call's locals are gone
Finish(t) ==
    /\ pc[t] = "done"
    /\ pc' = [pc EXCEPT ![t] = "idle"]
    /\ local' = [local EXCEPT ![t] = NoTensor]
    /\ cross_entropy' = [cross_entropy EXCEPT ![t] = NoTensor]
    /\ ret' = [ret EXCEPT ![t] = NotCalled]
    /\ fn' = [fn EXCEPT ![t] = ""]
    /\ UNCHANGED <<globals, tf_build, y_pred, y_true, identifier, got, prev>>

(***************************************************************************)
(* get, called in sequence: on an identifier, or on what it returned last. *)
(***************************************************************************)
Get(id) ==
    /\ identifier' = id
    /\ got' = get(id)
    /\ prev' = [identifier |-> identifier, got |-> got]
    /\ UNCHANGED <<globals, tf_build, y_pred, y_true, pc, fn, local,
                   cross_entropy, ret>>

GetOfResult ==
    /\ got.status = "ok"
    /\ Get(got.value)

(***************************************************************************)
(* Specifications.                                                         *)
(***************************************************************************)
InitModule ==
    /\ globals = ModuleGlobals
    /\ pc = [t \in Threads |-> "idle"]
    /\ fn = [t \in Threads |-> ""]
    /\ local = [t \in Threads |-> NoTensor]
    /\ cross_entropy = [t \in Threads |-> NoTensor]
    /\ ret = [t \in Threads |-> NotCalled]
    /\ identifier = None
    /\ got = GetNotCalled
    /\ prev = [identifier |-> None, got |-> GetNotCalled]

\* one caller, every input: tensors with elements, and tensors with none
InitOn(S) ==
    /\ InitModule
    /\ tf_build \in Builds
    /\ \E s \in S :
           /\ y_pred \in Tensors(s, Vals)
           /\ y_true \in Tensors(s, Vals)

Init ==
    \/ InitOn({s \in Shapes : Prod(s) > 0})
    \/ InitOn({s \in Shapes : Prod(s) = 0})

Objective(t) ==
    \/ CallSoftmaxCategoricalCrossentropy(t)
    \/ CallBinaryCrossentropy(t)
    \/ CallMeanSquare(t)
    \/ CallHingeLoss(t)
    \/ CceLine64(t)
    \/ CceLine68(t)
    \/ CceLine70(t)
    \/ CceLine72(t)
    \/ Finish(t)

Next == Objective("t1")

Spec == Init /\ [][Next]_vars

\* two callers on the same tensors
ConcVals == {Zero, Fin(1, 2), One}
ConcShapes == {s \in Shapes : Len(s) <= 2 /\ Prod(s) = 2}
ConcIdentifiers == {Str("mean_square"), Function("hinge_loss"), Str("tf"),
                    Str("not_a_real_objective")}

InitConc ==
    /\ InitModule
    /\ tf_build \in Builds
    /\ \E s \in ConcShapes :
           /\ y_pred \in Tensors(s, ConcVals)
           /\ y_true \in Tensors(s, ConcVals)

NextConc ==
    \E t \in Threads :
        \/ Objective(t)
        \/ \E id \in ConcIdentifiers : CallGet(t, id)

SpecConc == InitConc /\ [][NextConc]_vars

\* get alone
InitGet ==
    /\ InitModule
    /\ tf_build = [nan_propagates |-> TRUE, xent_any_rank |-> FALSE]
    /\ y_pred = NoTensor
    /\ y_true = NoTensor

NextGet ==
    \/ \E id \in Identifiers : Get(id)
    \/ GetOfResult

SpecGet == InitGet /\ [][NextGet]_vars

(***************************************************************************)
(* Predicates the properties use.                                          *)
(***************************************************************************)
Caller == "t1"
Returns(name) == pc[Caller] = "done" /\ fn[Caller] = name
Value(r) == r.value.data[1]

\* x >= y as IEEE compares: false when either is NaN
GreaterEqual(x, y) ==
    /\ x.k \notin {"nan", "opaque"}
    /\ y.k \notin {"nan", "opaque"}
    /\ ~Less(x, y)

NonEmpty(t) == Len(t.data) > 0
AllFinite(t) == \A i \in 1..Len(t.data) : IsFin(t.data[i])
RowSums(t) == reduce_sum(t, Rank(t) - 1, TRUE).data
RowSumsNonZero(t) == \A i \in 1..Len(RowSums(t)) : RowSums(t)[i] # Zero
\* every row along the last axis is non-negative and sums to 1
IsDistribution(t) ==
    /\ \A i \in 1..Len(t.data) : GreaterEqual(t.data[i], Zero)
    /\ \A i \in 1..Len(RowSums(t)) : RowSums(t)[i] = One
InClipRange(x) ==
    GreaterEqual(x, EPSILON) /\ GreaterEqual(Sub(One, EPSILON), x)
ObjectiveFunctions == {Function(n) : n \in ObjectiveNames}

(***************************************************************************)
(* C1.  get of an objective's name returns the function defined under that *)
(* name, for each of the five names, and no other objective.               *)
(***************************************************************************)
C1_GetResolvesObjectiveNames ==
    (identifier.type = "str" /\ identifier.name \in ObjectiveNames)
        => got = GetReturned(Function(identifier.name))

C1_Witness ==
    /\ identifier = Str("hinge_loss")
    /\ got = GetReturned(Function("hinge_loss"))

(***************************************************************************)
(* C2.  get(f) is f for every objective function f, so get of f's name and *)
(* get of f agree; and get(get(x)) = get(x) whenever get(x) succeeds.      *)
(***************************************************************************)
C2_PassThroughAndIdempotent ==
    /\ identifier \in ObjectiveFunctions => got = GetReturned(identifier)
    /\ identifier \in ObjectiveFunctions => got = get(Str(identifier.name))
    /\ (prev.got.status = "ok" /\ identifier = prev.got.value) => got = prev.got

(***************************************************************************)
(* C3.  get of an identifier that is neither a bound name nor a callable   *)
(* raises the not-found error naming the identifier and the category       *)
(* 'objective', returns nothing, and leaves the symbol table as it was.    *)
(***************************************************************************)
C3_UnknownIdentifierRaises ==
    (/\ got.status # "none"
     /\ ~(identifier.type = "str" /\ identifier.name \in DOMAIN ModuleGlobals)
     /\ ~Callable(identifier))
        => /\ got = GetRaised(identifier, "objective")
           /\ got.value = None
           /\ globals = ModuleGlobals

C3_Witness ==
    /\ identifier = Str("not_a_real_objective")
    /\ got.status = "raise"
    /\ got.error.identifier = Str("not_a_real_objective")

(***************************************************************************)
(* C4.  Whatever get returns is callable, and is one of the five           *)
(* objectives or the callable that was passed in.                          *)
(***************************************************************************)
C4_GetReturnsObjectiveOrArgument ==
    got.status = "ok"
        => /\ Callable(got.value)
           /\ got.value \in ObjectiveFunctions \/ got.value = identifier

(***************************************************************************)
(* C5.  mean_square(a, a) is exactly 0 for every tensor a.                 *)
(* Amended: for every tensor a with at least one element whose elements    *)
(* are all finite.                                                         *)
(***************************************************************************)
\* C5 as stated: mean_square(a, a) = 0 for every tensor a
C5_MeanSquareOfEqualIsZero ==
    (Returns("mean_square") /\ y_pred = y_true)
        => ret[Caller] = Returned(Scalar(Zero))

\* C5 as amended: mean_square(a, a) = 0 for every tensor a that has an
\* element and only finite elements
C5_MeanSquareOfEqualFiniteIsZero ==
    (Returns("mean_square") /\ y_pred = y_true /\ NonEmpty(y_pred)
     /\ AllFinite(y_pred))
        => ret[Caller] = Returned(Scalar(Zero))

C5_Witness ==
    /\ Returns("mean_square")
    /\ y_pred = Tensor(<<1, 2>>, <<One, Fin(2, 1)>>)
    /\ y_true = y_pred
    /\ ret[Caller] = Returned(Scalar(Zero))

(***************************************************************************)
(* C6.  hinge_loss returns the mean of max(1 - y_true * y_pred, 0), every  *)
(* element before the mean is >= 0 and so is the scalar returned, whatever *)
(* the targets; hinge_loss([[0.5]], [[1.0]]) = 0.5.                        *)
(* Amended: for tensors with at least one element in which no product      *)
(* y_true * y_pred is NaN (as when all elements are finite).               *)
(***************************************************************************)
HingeClaim ==
    LET e == HingeElements(y_pred, y_true).data
        m(i) == Sub(One, Mul(y_true.data[i], y_pred.data[i]))
    IN  /\ ret[Caller].status = "ok"
        /\ \A i \in 1..Len(e) : GreaterEqual(e[i], Zero)
        /\ \A i \in 1..Len(e) : e[i] = IF Less(Zero, m(i)) THEN m(i) ELSE Zero
        /\ GreaterEqual(Value(ret[Caller]), Zero)
        /\ Mul(Value(ret[Caller]), Fin(Len(e), 1)) = Sum(e)
        /\ (y_pred = Tensor(<<1, 1>>, <<Fin(1, 2)>>)
            /\ y_true = Tensor(<<1, 1>>, <<One>>))
               => Value(ret[Caller]) = Fin(1, 2)

NoNaNProduct ==
    \A i \in 1..Len(y_pred.data) : Mul(y_true.data[i], y_pred.data[i]) # NaN

\* C6 as stated: hinge_loss is the mean of max(1 - y_true * y_pred, 0) and is
\* >= 0, element by element and as a whole, for all inputs
C6_HingeLossNonNegative == Returns("hinge_loss") => HingeClaim

\* C6 as amended: the same for inputs that have an element and no NaN product
C6_HingeLossNonNegativeWithoutNaN ==
    (Returns("hinge_loss") /\ NonEmpty(y_pred) /\ NoNaNProduct) => HingeClaim

C6_Witness ==
    /\ Returns("hinge_loss")
    /\ y_pred = Tensor(<<1, 2>>, <<Fin(1, 2), Fin(2, 1)>>)
    /\ y_true = Tensor(<<1, 2>>, <<Zero, Fin(2, 1)>>)
    /\ Value(ret[Caller]) = Fin(1, 2)

(***************************************************************************)
(* C7.  categorical_crossentropy is >= 0 when the rows of y_pred and of    *)
(* y_true are non-negative and sum to 1.                                   *)
(* Amended: and the tensors have at least one row.                         *)
(***************************************************************************)
\* C7 as stated: categorical_crossentropy >= 0 on rows that are distributions
C7_CrossentropyNonNegative ==
    (Returns("categorical_crossentropy") /\ IsDistribution(y_pred)
     /\ IsDistribution(y_true))
        => GreaterEqual(Value(ret[Caller]), Zero)

\* C7 as amended: categorical_crossentropy >= 0 on rows that are
\* distributions, when there is at least one row
C7_CrossentropyNonNegativeOnRows ==
    (Returns("categorical_crossentropy") /\ IsDistribution(y_pred)
     /\ IsDistribution(y_true) /\ NonEmpty(y_pred))
        => GreaterEqual(Value(ret[Caller]), Zero)

C7_Witness ==
    /\ Returns("categorical_crossentropy")
    /\ y_pred = Tensor(<<1, 2>>, <<One, Zero>>)
    /\ y_true = Tensor(<<1, 2>>, <<Fin(1, 2), Fin(1, 2)>>)
    /\ Less(Zero, Value(ret[Caller]))

(***************************************************************************)
(* C8.  No call changes the caller's tensors or the module's state, in any *)
(* interleaving of two callers on the same tensors, and so each call       *)
(* returns what it returns when run alone on them.                         *)
(***************************************************************************)
C8_CallsLeaveArgumentsAndModuleAlone ==
    /\ [][/\ y_pred' = y_pred
          /\ y_true' = y_true
          /\ globals' = globals
          /\ tf_build' = tf_build]_vars
    /\ [](\A t \in Threads :
            /\ (pc[t] = "done" /\ fn[t] \in ObjectiveNames)
                   => ret[t] = Apply(fn[t], y_pred, y_true)
            /\ (pc[t] = "done" /\ fn[t] = "get")
                   => \E id \in ConcIdentifiers : ret[t] = get(id))

C8_Witness ==
    /\ pc["t1"] = "line70"
    /\ pc["t2"] = "done"
    /\ fn["t2"] = "categorical_crossentropy"
    /\ local["t1"] # y_pred
    /\ y_pred = Tensor(<<1, 2>>, <<One, One>>)

(***************************************************************************)
(* C9.  Each of the five objectives returns a rank-0 result on same-shaped *)
(* inputs of any rank >= 1; categorical_crossentropy sums over the last    *)
(* axis and then averages over all the remaining ones.                     *)
(* Amended: softmax_categorical_crossentropy does on inputs of rank 2; the *)
(* other four do on any rank >= 1.                                         *)
(***************************************************************************)
CceReducesLastAxisFirst ==
    pc[Caller] = "line72"
        => cross_entropy[Caller].shape = SubSeq(y_pred.shape, 1, Rank(y_pred) - 1)

\* C9 as stated: every objective returns a scalar at every rank >= 1
C9_EveryObjectiveReturnsScalar ==
    /\ (pc[Caller] = "done" /\ fn[Caller] \in ObjectiveNames)
           => (ret[Caller].status = "ok" /\ Rank(ret[Caller].value) = 0)
    /\ CceReducesLastAxisFirst

\* C9 as amended: every objective returns a scalar at every rank >= 1, the
\* softmax one at rank 2
C9_ObjectivesReturnScalarOnSupportedRank ==
    /\ (/\ pc[Caller] = "done"
        /\ fn[Caller] \in ObjectiveNames
        /\ (fn[Caller] = "softmax_categorical_crossentropy" => Rank(y_pred) = 2))
           => (ret[Caller].status = "ok" /\ Rank(ret[Caller].value) = 0)
    /\ CceReducesLastAxisFirst

C9_Witness ==
    /\ Returns("categorical_crossentropy")
    /\ Rank(y_pred) = 3
    /\ NonEmpty(y_pred)
    /\ Rank(ret[Caller].value) = 0

(***************************************************************************)
(* C10.  categorical_crossentropy renormalizes, then clips, then takes the *)
(* logarithm: when the row sums are non-zero every element passed to log   *)
(* is in [epsilon, 1-epsilon], and what is clipped is the renormalized     *)
(* tensor, not the caller's y_pred.                                        *)
(* Amended: when the elements are all finite and the row sums non-zero.    *)
(***************************************************************************)
LogArgumentClipped ==
    /\ pc[Caller] = "line68" =>
           local[Caller] = DivBroadcast(y_pred, reduce_sum(y_pred, Rank(y_pred) - 1, TRUE))
    /\ pc[Caller] = "line70" =>
           LET x == local[Caller]
           IN  /\ x.shape = y_pred.shape
               /\ \A i \in 1..Len(x.data) : InClipRange(x.data[i])

====
